---- MODULE Spec2Model ----
(***************************************************************************)
(* Model of src/main.cpp: the DICOM volume viewer's preset selector and    *)
(* transfer-function builders.  The file holds two revisions of the        *)
(* program (lines 1-258 and 260-577); `variant` says which one runs.       *)
(*                                                                         *)
(* Doubles are modelled as exact rationals <<n, d>> in lowest terms with   *)
(* d > 0 (no rounding, no infinities).  Strings are sequences of           *)
(* one-character strings so that ::tolower, rfind and substr are computed. *)
(* A transfer function object is the sequence of the points added to it    *)
(* since it was last cleared, in the order of the Add calls.               *)
(***************************************************************************)
EXTENDS Integers, Sequences, FiniteSets, TLC

VARIABLES variant, args, pc, preset, boneOnly, cinematic, err,
          hasSlope, hasIntercept, slope, intercept, log,
          ctf, otf, gtf, call, ncalls, spacing, unitDistance

vars == <<variant, args, pc, preset, boneOnly, cinematic, err,
          hasSlope, hasIntercept, slope, intercept, log,
          ctf, otf, gtf, call, ncalls, spacing, unitDistance>>

\* ------------------------------------------------------------------ bounds
\* Longest option list (argv[2..]) the model enumerates.
MaxArgs == 2
\* Most builder invocations on one pair of curve objects (SpecBuilders).
MaxCalls == 2

\* --------------------------------------------------------------- rationals
Abs(n) == IF n < 0 THEN -n ELSE n

RECURSIVE GCD(_, _)
GCD(a, b) == IF b = 0 THEN a ELSE GCD(b, a % b)

\* n/d in lowest terms, d > 0 (d # 0 required).
Rat(n, d) ==
  LET g == GCD(Abs(n), Abs(d))
      s == IF d < 0 THEN -1 ELSE 1
  IN  <<(s * n) \div g, (s * d) \div g>>

Num(n) == <<n, 1>>
\* A decimal literal with two places: Dec(35) is 0.35.
Dec(n) == Rat(n, 100)

RAdd(a, b) == Rat(a[1] * b[2] + b[1] * a[2], a[2] * b[2])
RSub(a, b) == Rat(a[1] * b[2] - b[1] * a[2], a[2] * b[2])
RMul(a, b) == Rat(a[1] * b[1], a[2] * b[2])
RDiv(a, b) == Rat(a[1] * b[2], a[2] * b[1])
RLt(a, b)  == a[1] * b[2] < b[1] * a[2]
RLe(a, b)  == a[1] * b[2] <= b[1] * a[2]
\* std::max(a, b): (a < b) ? b : a
RMax(a, b) == IF RLt(a, b) THEN b ELSE a

\* ----------------------------------------------------------------- strings
Upper == <<"A","B","C","D","E","F","G","H","I","J","K","L","M",
           "N","O","P","Q","R","S","T","U","V","W","X","Y","Z">>
Lower == <<"a","b","c","d","e","f","g","h","i","j","k","l","m",
           "n","o","p","q","r","s","t","u","v","w","x","y","z">>

tolower(c) ==
  IF \E i \in 1..26 : Upper[i] = c
  THEN Lower[CHOOSE i \in 1..26 : Upper[i] = c]
  ELSE c

\* std::transform(preset.begin(), preset.end(), preset.begin(), ::tolower)
ToLower(s) == [i \in 1..Len(s) |-> tolower(s[i])]

\* a.rfind(p, 0) == 0
StartsWith(a, p) == Len(a) >= Len(p) /\ SubSeq(a, 1, Len(p)) = p

\* a.substr(9)
Substr9(a) == SubSeq(a, 10, Len(a))

sSoft      == <<"s","o","f","t">>
sBone      == <<"b","o","n","e">>
sLung      == <<"l","u","n","g">>
sBoneOnly  == <<"b","o","n","e","-","o","n","l","y">>
sCinematic == <<"c","i","n","e","m","a","t","i","c">>
optBoneOnly == <<"-","-">> \o sBoneOnly
optPreset   == <<"-","-","p","r","e","s","e","t">>
optPresetEq == optPreset \o <<"=">>

\* ------------------------------------------------------------------ inputs
sDir == <<"d">>
RawNames == { sSoft, sLung, sBoneOnly,
              <<"x","y","z">>,
              <<"B","O","N","E","-","O","N","L","Y">>,
              <<"L","u","n","g">> }
EqNames == { sBone, sCinematic, <<"B","O","N","E","-","O","N","L","Y">> }
Tokens == {optBoneOnly, optPreset} \cup RawNames
            \cup { optPresetEq \o n : n \in EqNames }

RECURSIVE SeqsUpTo(_, _)
SeqsUpTo(S, n) ==
  IF n = 0 THEN { <<>> }
  ELSE LET shorter == SeqsUpTo(S, n - 1)
       IN  shorter \cup { Append(s, t) : s \in shorter, t \in S }

\* argv[1..]: empty (argc = 1), or the directory followed by options.
ArgLists == { <<>> } \cup { <<sDir>> \o s : s \in SeqsUpTo(Tokens, MaxArgs) }

Slopes     == { Num(-1), Num(0), Rat(1, 2), Num(1), Num(2) }
Intercepts == { Num(-1024), Num(0) }

\* --------------------------------------------------------- argument parsing
\* argc of the run; args[i] is argv[i].
argc == Len(args) + 1

\* One iteration of the first revision's loop body at index i; returns the
\* state after it and the index the next iteration starts at.
ParseStep1(av, i, st) ==
  LET a  == av[i]
      s1 == IF a = optBoneOnly THEN [st EXCEPT !.boneOnly = TRUE] ELSE st
  IN  IF StartsWith(a, optPresetEq)
      THEN [st |-> [s1 EXCEPT !.preset = Substr9(a)], next |-> i + 1]
      ELSE IF a = optPreset /\ i + 1 < Len(av) + 1
      THEN [st |-> [s1 EXCEPT !.preset = av[i + 1]], next |-> i + 2]
      ELSE [st |-> s1, next |-> i + 1]

\* One iteration of the second revision's loop body.
ParseStep2(av, i, st) ==
  LET a == av[i]
  IN  IF a = optBoneOnly
      THEN [st |-> [st EXCEPT !.boneOnly = TRUE], next |-> i + 1]
      ELSE IF a = optPreset /\ i + 1 < Len(av) + 1
      THEN [st |-> [st EXCEPT !.preset = av[i + 1]], next |-> i + 2]
      ELSE IF StartsWith(a, optPresetEq)
      THEN [st |-> [st EXCEPT !.preset = Substr9(a)], next |-> i + 1]
      ELSE [st |-> st, next |-> i + 1]

RECURSIVE ParseLoop(_, _, _, _)
ParseLoop(v, av, i, st) ==
  IF i < Len(av) + 1
  THEN LET r == IF v = 1 THEN ParseStep1(av, i, st) ELSE ParseStep2(av, i, st)
       IN  ParseLoop(v, av, r.next, r.st)
  ELSE st

\* std::string preset = "soft"; bool boneOnly = false; for (int i = 2; ...)
ParseArgv(v, av) == ParseLoop(v, av, 2, [preset |-> sSoft, boneOnly |-> FALSE])

\* ------------------------------------------------------- preset selection
\* First revision: the bone-only test precedes the case normalization.
SelectV1(p, b) ==
  LET b1 == b \/ p = sBoneOnly
      lp == ToLower(p)
      unknown == lp # sSoft /\ lp # sBone /\ lp # sLung /\ ~b1
  IN  [preset    |-> IF unknown THEN sSoft ELSE lp,
       boneOnly  |-> b1,
       cinematic |-> FALSE,
       warn      |-> IF unknown THEN << <<"Unknown preset", lp>> >> ELSE <<>>]

\* Second revision: normalize, then test bone-only and cinematic.
SelectV2(p, b) ==
  LET lp == ToLower(p)
      b1 == b \/ lp = sBoneOnly
      c1 == lp = sCinematic
      unknown == ~b1 /\ ~c1 /\ lp # sSoft /\ lp # sBone /\ lp # sLung
  IN  [preset    |-> IF unknown THEN sSoft ELSE lp,
       boneOnly  |-> b1,
       cinematic |-> c1,
       warn      |-> IF unknown THEN << <<"Unknown preset", lp>> >> ELSE <<>>]

SelectPresetOf(v, p, b) == IF v = 1 THEN SelectV1(p, b) ELSE SelectV2(p, b)

\* ------------------------------------------------------ transfer functions
\* vtkColorTransferFunction / vtkPiecewiseFunction, as the builders use them.
RemoveAllPoints(f) == <<>>
AddPoint(f, x, y) == Append(f, [x |-> x, y |-> y])
AddRGBPoint(f, x, r, g, b) == Append(f, [x |-> x, r |-> r, g |-> g, b |-> b])

\* const double s = (slope == 0.0 ? 1.0 : slope);
EffSlope(sl) == IF sl = Num(0) THEN Num(1) ELSE sl

hu2s_NoIntercept(hu, s, ic) == RDiv(hu, s)
\* auto hu2s = [&](double hu) { return (hu - intercept) / s; };
hu2s(hu, s, ic) == RDiv(RSub(hu, ic), s)

DeriveBounds_NoFloor(wlww) ==
  LET center == wlww.wl
      width  == wlww.ww
      low    == RSub(center, RMul(width, Rat(1, 2)))
  IN  [low  |-> low,
       high |-> RAdd(center, RMul(width, Rat(1, 2))),
       mid1 |-> RAdd(low, RMul(width, Rat(1, 4))),
       mid2 |-> RAdd(low, RMul(width, Rat(3, 4)))]
\* center, width = max(1.0, ww), low, high, mid1, mid2 of BuildCTTransferFunctions
DeriveBounds(wlww) ==
  LET center == wlww.wl
      width  == RMax(Num(1), wlww.ww)
      low    == RSub(center, RMul(width, Rat(1, 2)))
  IN  [low  |-> low,
       high |-> RAdd(center, RMul(width, Rat(1, 2))),
       mid1 |-> RAdd(low, RMul(width, Rat(1, 4))),
       mid2 |-> RAdd(low, RMul(width, Rat(3, 4)))]

\* Identical in both revisions.
BuildCTTransferFunctions(c, o, wlww, sl, ic) ==
  LET s  == EffSlope(sl)
      w  == DeriveBounds(wlww)
      c0 == RemoveAllPoints(c)
      c1 == AddRGBPoint(c0, hu2s(w.low,  s, ic), Dec(0),   Dec(0),   Dec(0))
      c2 == AddRGBPoint(c1, hu2s(w.mid1, s, ic), Dec(50),  Dec(50),  Dec(50))
      c3 == AddRGBPoint(c2, hu2s(w.mid2, s, ic), Dec(80),  Dec(80),  Dec(80))
      c4 == AddRGBPoint(c3, hu2s(w.high, s, ic), Dec(100), Dec(100), Dec(100))
      o0 == RemoveAllPoints(o)
      o1 == AddPoint(o0, hu2s(RSub(w.low, Num(200)), s, ic),  Dec(0))
      o2 == AddPoint(o1, hu2s(w.low,  s, ic),                 Dec(2))
      o3 == AddPoint(o2, hu2s(w.mid1, s, ic),                 Dec(10))
      o4 == AddPoint(o3, hu2s(w.mid2, s, ic),                 Dec(35))
      o5 == AddPoint(o4, hu2s(w.high, s, ic),                 Dec(80))
      o6 == AddPoint(o5, hu2s(RAdd(w.high, Num(500)), s, ic), Dec(95))
  IN  [ctf |-> c4, otf |-> o6]

\* hu0..huMax and the opacities given to them, per revision.
BoneOnlyLandmarks_FloorAboveRamp(v) ==
  [hu0 |-> IF v = 1 THEN Num(510) ELSE Num(810),
   hu1 |-> Num(250), hu2 |-> Num(700), hu3 |-> Num(1500), huMax |-> Num(3000)]
BoneOnlyLandmarks(v) ==
  [hu0 |-> IF v = 1 THEN Num(150) ELSE Num(180),
   hu1 |-> Num(250), hu2 |-> Num(700), hu3 |-> Num(1500), huMax |-> Num(3000)]

BoneOnlyOpacities_Dip(v) ==
  IF v = 1 THEN <<Dec(0), Dec(2), Dec(85), Dec(35), Dec(95)>>
           ELSE <<Dec(0), Dec(2), Dec(92), Dec(50), Dec(98)>>
BoneOnlyOpacities(v) ==
  IF v = 1 THEN <<Dec(0), Dec(2), Dec(35), Dec(85), Dec(95)>>
           ELSE <<Dec(0), Dec(2), Dec(50), Dec(92), Dec(98)>>

BuildBoneOnly_NoClear(v, c, o, sl, ic) ==
  LET s  == EffSlope(sl)
      h  == BoneOnlyLandmarks(v)
      a  == BoneOnlyOpacities(v)
      o1 == AddPoint(o,  hu2s(h.hu0,   s, ic), a[1])
      o2 == AddPoint(o1, hu2s(h.hu1,   s, ic), a[2])
      o3 == AddPoint(o2, hu2s(h.hu2,   s, ic), a[3])
      o4 == AddPoint(o3, hu2s(h.hu3,   s, ic), a[4])
      o5 == AddPoint(o4, hu2s(h.huMax, s, ic), a[5])
      c1 == AddRGBPoint(c,  hu2s(h.hu1,   s, ic), Dec(85),  Dec(82),  Dec(78))
      c2 == AddRGBPoint(c1, hu2s(h.hu2,   s, ic), Dec(92),  Dec(90),  Dec(88))
      c3 == AddRGBPoint(c2, hu2s(h.hu3,   s, ic), Dec(98),  Dec(97),  Dec(96))
      c4 == AddRGBPoint(c3, hu2s(h.huMax, s, ic), Dec(100), Dec(100), Dec(100))
  IN  [ctf |-> c4, otf |-> o5]
BuildBoneOnlyTransferFunctions(v, c, o, sl, ic) ==
  LET s  == EffSlope(sl)
      h  == BoneOnlyLandmarks(v)
      a  == BoneOnlyOpacities(v)
      o0 == RemoveAllPoints(o)
      o1 == AddPoint(o0, hu2s(h.hu0,   s, ic), a[1])
      o2 == AddPoint(o1, hu2s(h.hu1,   s, ic), a[2])
      o3 == AddPoint(o2, hu2s(h.hu2,   s, ic), a[3])
      o4 == AddPoint(o3, hu2s(h.hu3,   s, ic), a[4])
      o5 == AddPoint(o4, hu2s(h.huMax, s, ic), a[5])
      c0 == RemoveAllPoints(c)
      c1 == AddRGBPoint(c0, hu2s(h.hu1,   s, ic), Dec(85),  Dec(82),  Dec(78))
      c2 == AddRGBPoint(c1, hu2s(h.hu2,   s, ic), Dec(92),  Dec(90),  Dec(88))
      c3 == AddRGBPoint(c2, hu2s(h.hu3,   s, ic), Dec(98),  Dec(97),  Dec(96))
      c4 == AddRGBPoint(c3, hu2s(h.huMax, s, ic), Dec(100), Dec(100), Dec(100))
  IN  [ctf |-> c4, otf |-> o5]

\* Key HU landmarks of the cinematic preset (second revision only).
CinematicLandmarks ==
  [air |-> Num(-1000), fat |-> Num(-100), water |-> Num(0),
   softHi |-> Num(150), trabBone |-> Num(300), cortical |-> Num(700),
   teeth |-> Num(1500), huMax |-> Num(3000)]

BuildCinematicSkullTFs_FatVisible(c, o, sl, ic) ==
  LET s  == EffSlope(sl)
      h  == CinematicLandmarks
      c0 == RemoveAllPoints(c)
      c1 == AddRGBPoint(c0, hu2s(h.fat,      s, ic), Dec(85),  Dec(48),  Dec(20))
      c2 == AddRGBPoint(c1, hu2s(h.water,    s, ic), Dec(92),  Dec(65),  Dec(35))
      c3 == AddRGBPoint(c2, hu2s(h.softHi,   s, ic), Dec(95),  Dec(75),  Dec(45))
      c4 == AddRGBPoint(c3, hu2s(h.trabBone, s, ic), Dec(95),  Dec(90),  Dec(85))
      c5 == AddRGBPoint(c4, hu2s(h.cortical, s, ic), Dec(98),  Dec(97),  Dec(96))
      c6 == AddRGBPoint(c5, hu2s(h.teeth,    s, ic), Dec(100), Dec(100), Dec(100))
      c7 == AddRGBPoint(c6, hu2s(h.huMax,    s, ic), Dec(100), Dec(100), Dec(100))
      o0 == RemoveAllPoints(o)
      o1 == AddPoint(o0, hu2s(h.air,      s, ic), Dec(0))
      o2 == AddPoint(o1, hu2s(h.fat,      s, ic), Dec(2))
      o3 == AddPoint(o2, hu2s(h.water,    s, ic), Dec(5))
      o4 == AddPoint(o3, hu2s(h.softHi,   s, ic), Dec(12))
      o5 == AddPoint(o4, hu2s(h.trabBone, s, ic), Dec(35))
      o6 == AddPoint(o5, hu2s(h.cortical, s, ic), Dec(80))
      o7 == AddPoint(o6, hu2s(h.teeth,    s, ic), Dec(95))
      o8 == AddPoint(o7, hu2s(h.huMax,    s, ic), Dec(98))
  IN  [ctf |-> c7, otf |-> o8]
BuildCinematicSkullTFs(c, o, sl, ic) ==
  LET s  == EffSlope(sl)
      h  == CinematicLandmarks
      c0 == RemoveAllPoints(c)
      c1 == AddRGBPoint(c0, hu2s(h.fat,      s, ic), Dec(85),  Dec(48),  Dec(20))
      c2 == AddRGBPoint(c1, hu2s(h.water,    s, ic), Dec(92),  Dec(65),  Dec(35))
      c3 == AddRGBPoint(c2, hu2s(h.softHi,   s, ic), Dec(95),  Dec(75),  Dec(45))
      c4 == AddRGBPoint(c3, hu2s(h.trabBone, s, ic), Dec(95),  Dec(90),  Dec(85))
      c5 == AddRGBPoint(c4, hu2s(h.cortical, s, ic), Dec(98),  Dec(97),  Dec(96))
      c6 == AddRGBPoint(c5, hu2s(h.teeth,    s, ic), Dec(100), Dec(100), Dec(100))
      c7 == AddRGBPoint(c6, hu2s(h.huMax,    s, ic), Dec(100), Dec(100), Dec(100))
      o0 == RemoveAllPoints(o)
      o1 == AddPoint(o0, hu2s(h.air,      s, ic), Dec(0))
      o2 == AddPoint(o1, hu2s(h.fat,      s, ic), Dec(0))
      o3 == AddPoint(o2, hu2s(h.water,    s, ic), Dec(5))
      o4 == AddPoint(o3, hu2s(h.softHi,   s, ic), Dec(12))
      o5 == AddPoint(o4, hu2s(h.trabBone, s, ic), Dec(35))
      o6 == AddPoint(o5, hu2s(h.cortical, s, ic), Dec(80))
      o7 == AddPoint(o6, hu2s(h.teeth,    s, ic), Dec(95))
      o8 == AddPoint(o7, hu2s(h.huMax,    s, ic), Dec(98))
  IN  [ctf |-> c7, otf |-> o8]

\* ---------------------------------------------------------------- main()
\* if (preset == "soft") {40, 400} else if (preset == "bone") {300, 1500}
\* else /* lung */ {-600, 1500}
WindowOf(p) ==
  IF p = sSoft THEN [wl |-> Num(40), ww |-> Num(400)]
  ELSE IF p = sBone THEN [wl |-> Num(300), ww |-> Num(1500)]
  ELSE [wl |-> Num(-600), ww |-> Num(1500)]

\* The "Applied window/level" entry: the scalar window of the raw WL/WW.
WindowLog(wlww, sl, ic) ==
  LET s      == EffSlope(sl)
      lowHU  == RSub(wlww.wl, RMul(wlww.ww, Rat(1, 2)))
      highHU == RAdd(wlww.wl, RMul(wlww.ww, Rat(1, 2)))
  IN  <<"Applied WL/WW", wlww.wl, wlww.ww,
        RDiv(RSub(lowHU, ic), s), RDiv(RSub(highHU, ic), s)>>

\* The SPDLOG_INFO entries written after the volume is read.
InfoLog(v, p, b, c, sl, ic) ==
  << <<"Preset", p>> >>
  \o (IF v = 2 THEN << <<"Bone-only", b>>, <<"Cinematic", c>> >> ELSE <<>>)
  \o << <<"Loaded DICOM volume">>, <<"Series">>, <<"Extent">>, <<"Spacing">>,
        <<"Origin">>, <<"Scalar range">>, <<"RescaleSlope/Intercept", sl, ic>> >>

\* Which builder the if/else chain of main() calls.
Dispatch_WindowFirst(v, p, b, c) ==
  IF p \in {sSoft, sBone, sLung} THEN "BuildCTTransferFunctions"
  ELSE IF b THEN "BuildBoneOnlyTransferFunctions"
  ELSE IF v = 2 /\ c THEN "BuildCinematicSkullTFs"
  ELSE "BuildCTTransferFunctions"
Dispatch(v, p, b, c) ==
  IF b THEN "BuildBoneOnlyTransferFunctions"
  ELSE IF v = 2 /\ c THEN "BuildCinematicSkullTFs"
  ELSE "BuildCTTransferFunctions"

\* The entries written while the transfer functions are built.
BuildLog(v, p, b, c, sl, ic) ==
  LET fn == Dispatch(v, p, b, c)
  IN  (IF v = 1 THEN << WindowLog(WindowOf(p), sl, ic) >> ELSE <<>>)
      \o (IF fn = "BuildBoneOnlyTransferFunctions" THEN << <<"Bone-only mode">> >>
          ELSE IF fn = "BuildCinematicSkullTFs" THEN << <<"Cinematic preset">> >>
          ELSE IF v = 2 THEN << WindowLog(WindowOf(p), sl, ic) >>
          ELSE <<>>)

\* The call the chain makes, and the curves it leaves.
CallOf(v, p, b, c, sl, ic) ==
  LET fn == Dispatch(v, p, b, c)
  IN  IF fn = "BuildBoneOnlyTransferFunctions" THEN <<fn, v, sl, ic>>
      ELSE IF fn = "BuildCinematicSkullTFs" THEN <<fn, sl, ic>>
      ELSE <<fn, WindowOf(p), sl, ic>>

RunCall(k, c, o) ==
  IF k[1] = "BuildBoneOnlyTransferFunctions"
  THEN BuildBoneOnlyTransferFunctions(k[2], c, o, k[3], k[4])
  ELSE IF k[1] = "BuildCinematicSkullTFs"
  THEN BuildCinematicSkullTFs(c, o, k[2], k[3])
  ELSE BuildCTTransferFunctions(c, o, k[2], k[3], k[4])

\* Voxel spacings of the loaded image (image->GetSpacing); the model draws
\* the value where the program first computes with it.
Spacings ==
  { <<Num(0), Num(0), Num(0)>>,
    <<Rat(1, 2), Rat(1, 2), Rat(1, 2)>>,
    <<Num(1), Num(1), Num(1)>>,
    <<Num(1), Num(2), Num(2)>> }

RECURSIVE ISqrtIn(_, _, _)
ISqrtIn(n, lo, hi) ==
  IF lo = hi THEN lo
  ELSE LET mid == (lo + hi + 1) \div 2
       IN  IF mid * mid <= n THEN ISqrtIn(n, mid, hi) ELSE ISqrtIn(n, lo, mid - 1)

\* std::sqrt of a non-negative value, cut to three decimals.
Sqrt(a) ==
  LET n == (a[1] * 1000000) \div a[2]
  IN  Rat(ISqrtIn(n, 0, n \div 1000 + 1000), 1000)

UnitDistance_NoFloor(sp) ==
  RMul(Rat(1, 2), Sqrt(RAdd(RAdd(RMul(sp[1], sp[1]), RMul(sp[2], sp[2])),
                            RMul(sp[3], sp[3]))))
\* step = sqrt(sx^2 + sy^2 + sz^2); std::max(0.5, 0.5 * step)
\* (second revision; the first never sets the unit distance).
UnitDistance(sp) ==
  LET step == Sqrt(RAdd(RAdd(RMul(sp[1], sp[1]), RMul(sp[2], sp[2])),
                        RMul(sp[3], sp[3])))
  IN  RMax(Rat(1, 2), RMul(Rat(1, 2), step))

\* The fixed gradient-opacity curve of each revision.
GradientOpacity(v) ==
  LET g1 == AddPoint(<<>>, Num(0), Dec(0))
      g2 == AddPoint(g1, Num(50), Dec(0))
      g3 == IF v = 1 THEN AddPoint(g2, Num(100), Dec(30))
                     ELSE AddPoint(g2, Num(120), Dec(35))
  IN  AddPoint(g3, Num(400), Dec(100))

Init ==
  /\ variant \in {1, 2}
  /\ args \in ArgLists
  /\ pc = "start"
  /\ preset = sSoft
  /\ boneOnly = FALSE
  /\ cinematic = FALSE
  /\ err = <<>>
  /\ hasSlope = FALSE
  /\ hasIntercept = FALSE
  /\ slope = Num(1)
  /\ intercept = Num(0)
  /\ log = <<>>
  /\ ctf = <<>>
  /\ otf = <<>>
  /\ gtf = <<>>
  /\ call = <<"none">>
  /\ ncalls = 0
  /\ spacing = <<>>
  /\ unitDistance = <<>>

\* if (argc < 2) { usage; return EXIT_FAILURE; }
Usage ==
  /\ pc = "start"
  /\ argc < 2
  /\ err' = Append(err, <<"Usage">>)
  /\ pc' = "exit_failure"
  /\ UNCHANGED <<variant, args, preset, boneOnly, cinematic, hasSlope,
                 hasIntercept, slope, intercept, log, ctf, otf, gtf, call, ncalls, spacing, unitDistance>>

\* The argument loop.
ParseArgs ==
  /\ pc = "start"
  /\ ~(argc < 2)
  /\ LET st == ParseArgv(variant, args)
     IN  /\ preset' = st.preset
         /\ boneOnly' = st.boneOnly
  /\ pc' = "parsed"
  /\ UNCHANGED <<variant, args, cinematic, err, hasSlope, hasIntercept,
                 slope, intercept, log, ctf, otf, gtf, call, ncalls, spacing, unitDistance>>

\* Case normalization, the bone-only / cinematic tests, the unknown-preset
\* fallback.
SelectPreset ==
  /\ pc = "parsed"
  /\ LET r == SelectPresetOf(variant, preset, boneOnly)
     IN  /\ preset' = r.preset
         /\ boneOnly' = r.boneOnly
         /\ cinematic' = r.cinematic
         /\ err' = err \o r.warn
  /\ pc' = "selected"
  /\ UNCHANGED <<variant, args, hasSlope, hasIntercept, slope, intercept,
                 log, ctf, otf, gtf, call, ncalls, spacing, unitDistance>>

\* The directory scan, the series read or the image output fails.
LoadFails ==
  /\ pc = "selected"
  /\ \E why \in {"No DICOM images found", "Failed to read DICOM series",
                 "No image output"} :
       err' = Append(err, <<why>>)
  /\ pc' = "exit_failure"
  /\ UNCHANGED <<variant, args, preset, boneOnly, cinematic, hasSlope,
                 hasIntercept, slope, intercept, log, ctf, otf, gtf, call, ncalls, spacing, unitDistance>>

\* The volume is read; slope and intercept keep their defaults unless the
\* metadata has the tag (no metadata object: neither tag).
LoadVolume ==
  /\ pc = "selected"
  /\ \E hs \in BOOLEAN, hi \in BOOLEAN, sv \in Slopes, iv \in Intercepts :
       /\ hasSlope' = hs
       /\ hasIntercept' = hi
       /\ slope' = IF hs THEN sv ELSE Num(1)
       /\ intercept' = IF hi THEN iv ELSE Num(0)
  /\ pc' = "loaded"
  /\ UNCHANGED <<variant, args, preset, boneOnly, cinematic, err, log,
                 ctf, otf, gtf, call, ncalls, spacing, unitDistance>>

LogInfo ==
  /\ pc = "loaded"
  /\ log' = log \o InfoLog(variant, preset, boneOnly, cinematic, slope, intercept)
  /\ pc' = "logged"
  /\ UNCHANGED <<variant, args, preset, boneOnly, cinematic, err, hasSlope,
                 hasIntercept, slope, intercept, ctf, otf, gtf, call, ncalls, spacing, unitDistance>>

\* vtkNew ctf, otf; the builder dispatch with its log entries.
BuildTransferFunctions ==
  /\ pc = "logged"
  /\ LET k == CallOf(variant, preset, boneOnly, cinematic, slope, intercept)
         r == RunCall(k, <<>>, <<>>)
     IN  /\ call' = k
         /\ ctf' = r.ctf
         /\ otf' = r.otf
  /\ ncalls' = ncalls + 1
  /\ log' = log \o BuildLog(variant, preset, boneOnly, cinematic, slope, intercept)
  /\ pc' = "built"
  /\ UNCHANGED <<variant, args, preset, boneOnly, cinematic, err, hasSlope,
                 hasIntercept, slope, intercept, gtf, spacing, unitDistance>>

\* The volume property: color, scalar opacity, gradient opacity and, in the
\* second revision, the scalar opacity unit distance (<<>>: never set).
AssembleProperty ==
  /\ pc = "built"
  /\ gtf' = GradientOpacity(variant)
  /\ \E sp \in Spacings :
       /\ spacing' = sp
       /\ unitDistance' = IF variant = 2 THEN UnitDistance(sp) ELSE unitDistance
  /\ pc' = "done"
  /\ UNCHANGED <<variant, args, preset, boneOnly, cinematic, err, hasSlope,
                 hasIntercept, slope, intercept, log, ctf, otf, call, ncalls>>

Next ==
  \/ Usage
  \/ ParseArgs
  \/ SelectPreset
  \/ LoadFails
  \/ LoadVolume
  \/ LogInfo
  \/ BuildTransferFunctions
  \/ AssembleProperty

Spec == Init /\ [][Next]_vars

\* ------------------------------------------- the builders on shared curves
\* Any sequence of builder calls, with any parameters, on one color curve and
\* one opacity curve.
WindowLevels ==
  { [wl |-> Num(c), ww |-> w] :
      c \in {-600, 40},
      w \in {Num(-4), Num(0), Num(1), Num(400)} }

InitB ==
  /\ variant = 2
  /\ args = <<>>
  /\ pc = "builders"
  /\ preset = sSoft
  /\ boneOnly = FALSE
  /\ cinematic = FALSE
  /\ err = <<>>
  /\ hasSlope = FALSE
  /\ hasIntercept = FALSE
  /\ slope = Num(1)
  /\ intercept = Num(0)
  /\ log = <<>>
  /\ ctf = <<>>
  /\ otf = <<>>
  /\ gtf = <<>>
  /\ call = <<"none">>
  /\ ncalls = 0
  /\ spacing = <<>>
  /\ unitDistance = <<>>

CallBuildCT ==
  /\ pc = "builders"
  /\ ncalls < MaxCalls
  /\ \E w \in WindowLevels, sl \in Slopes, ic \in Intercepts :
       LET r == BuildCTTransferFunctions(ctf, otf, w, sl, ic)
       IN  /\ ctf' = r.ctf
           /\ otf' = r.otf
           /\ call' = <<"BuildCTTransferFunctions", w, sl, ic>>
  /\ ncalls' = ncalls + 1
  /\ UNCHANGED <<variant, args, pc, preset, boneOnly, cinematic, err, hasSlope,
                 hasIntercept, slope, intercept, log, gtf, spacing, unitDistance>>

CallBuildBoneOnly ==
  /\ pc = "builders"
  /\ ncalls < MaxCalls
  /\ \E v \in {1, 2}, sl \in Slopes, ic \in Intercepts :
       LET r == BuildBoneOnlyTransferFunctions(v, ctf, otf, sl, ic)
       IN  /\ ctf' = r.ctf
           /\ otf' = r.otf
           /\ call' = <<"BuildBoneOnlyTransferFunctions", v, sl, ic>>
  /\ ncalls' = ncalls + 1
  /\ UNCHANGED <<variant, args, pc, preset, boneOnly, cinematic, err, hasSlope,
                 hasIntercept, slope, intercept, log, gtf, spacing, unitDistance>>

CallBuildCinematic ==
  /\ pc = "builders"
  /\ ncalls < MaxCalls
  /\ \E sl \in Slopes, ic \in Intercepts :
       LET r == BuildCinematicSkullTFs(ctf, otf, sl, ic)
       IN  /\ ctf' = r.ctf
           /\ otf' = r.otf
           /\ call' = <<"BuildCinematicSkullTFs", sl, ic>>
  /\ ncalls' = ncalls + 1
  /\ UNCHANGED <<variant, args, pc, preset, boneOnly, cinematic, err, hasSlope,
                 hasIntercept, slope, intercept, log, gtf, spacing, unitDistance>>

NextB ==
  \/ CallBuildCT
  \/ CallBuildBoneOnly
  \/ CallBuildCinematic

SpecBuilders == InitB /\ [][NextB]_vars

\* ------------------------------------------------------------ properties
\* What the argument list asks for: the preset token and the --bone-only flag.
ReqPreset == ParseArgv(variant, args).preset
ReqFlag   == ParseArgv(variant, args).boneOnly
Built     == pc \in {"built", "done"}
Warned    == \E i \in 1..Len(err) : err[i][1] = "Unknown preset"
FiveNames == {sSoft, sBone, sLung, sBoneOnly, sCinematic}

\* The slope and intercept the last builder call was given.
CallSlope     == call[Len(call) - 1]
CallIntercept == call[Len(call)]
\* toScalar of the design: (hu - intercept) / effectiveSlope.
ToScalar(hu, sl, ic) == RDiv(RSub(hu, ic), IF sl = Num(0) THEN Num(1) ELSE sl)
\* toHU of the design: scalar * effectiveSlope + intercept.
ToHU(x, sl, ic) == RAdd(RMul(x, IF sl = Num(0) THEN Num(1) ELSE sl), ic)
HUOf(f) == [i \in 1..Len(f) |-> ToHU(f[i].x, CallSlope, CallIntercept)]

Increasing(f) == \A i \in 1..(Len(f) - 1) : RLt(f[i].x, f[i + 1].x)
Decreasing(f) == \A i \in 1..(Len(f) - 1) : RLt(f[i + 1].x, f[i].x)
Unit(v) == RLe(Num(0), v) /\ RLe(v, Num(1))
ValuesInUnit ==
  /\ \A i \in 1..Len(otf) : Unit(otf[i].y)
  /\ \A i \in 1..Len(ctf) : Unit(ctf[i].r) /\ Unit(ctf[i].g) /\ Unit(ctf[i].b)

\* C1: whenever the --bone-only flag is set or the normalized preset name is
\* bone-only, the Bone-Only builder is the one that builds the curves.
C1_BoneOnlyPrecedence ==
  (Built /\ (ReqFlag \/ ToLower(ReqPreset) = sBoneOnly))
    => call[1] = "BuildBoneOnlyTransferFunctions"

\* C2: every spelling of a preset name selects what its all-lower-case
\* spelling selects (preset, bone-only and cinematic alike).
C2_CaseInsensitive ==
  pc \in {"selected", "loaded", "logged", "built", "done"} =>
    LET r == SelectPresetOf(variant, ToLower(ReqPreset), ReqFlag)
    IN  /\ preset = r.preset
        /\ boneOnly = r.boneOnly
        /\ cinematic = r.cinematic

\* C3: an unknown token without the flag builds windowed soft (40, 400) and
\* warns; a token that is one of the five names never warns.
C3_UnknownFallback ==
  Built =>
    LET n == ToLower(ReqPreset)
    IN  /\ (n \notin FiveNames /\ ~ReqFlag) =>
              /\ call = <<"BuildCTTransferFunctions",
                          [wl |-> Num(40), ww |-> Num(400)], slope, intercept>>
              /\ Warned
        /\ (n \in FiveNames) => ~Warned

\* C4: each of the five names, requested alone, selects its own builder and
\* parameters, and exactly one builder is invoked per run.
C4_OwnBuilder ==
  (Built /\ ~ReqFlag) =>
    /\ ncalls = 1
    /\ ReqPreset = sSoft => call = <<"BuildCTTransferFunctions",
                              [wl |-> Num(40), ww |-> Num(400)], slope, intercept>>
    /\ ReqPreset = sBone => call = <<"BuildCTTransferFunctions",
                              [wl |-> Num(300), ww |-> Num(1500)], slope, intercept>>
    /\ ReqPreset = sLung => call = <<"BuildCTTransferFunctions",
                              [wl |-> Num(-600), ww |-> Num(1500)], slope, intercept>>
    /\ ReqPreset = sBoneOnly => call[1] = "BuildBoneOnlyTransferFunctions"
    /\ ReqPreset = sCinematic => call[1] = "BuildCinematicSkullTFs"

CTColorHU(w) ==
  LET width == IF RLt(w.ww, Num(1)) THEN Num(1) ELSE w.ww
      half  == RDiv(width, Num(2))
      qrt   == RDiv(width, Num(4))
  IN  <<RSub(w.wl, half), RSub(w.wl, qrt), RAdd(w.wl, qrt), RAdd(w.wl, half)>>
CTOpacityHU(w) ==
  LET c == CTColorHU(w)
  IN  <<RSub(c[1], Num(200))>> \o c \o <<RAdd(c[4], Num(500))>>
ColorHU ==
  IF call[1] = "BuildCTTransferFunctions" THEN CTColorHU(call[2])
  ELSE IF call[1] = "BuildBoneOnlyTransferFunctions"
  THEN <<Num(250), Num(700), Num(1500), Num(3000)>>
  ELSE <<Num(-100), Num(0), Num(150), Num(300), Num(700), Num(1500), Num(3000)>>
OpacityHU ==
  IF call[1] = "BuildCTTransferFunctions" THEN CTOpacityHU(call[2])
  ELSE IF call[1] = "BuildBoneOnlyTransferFunctions"
  THEN <<IF call[2] = 1 THEN Num(150) ELSE Num(180),
         Num(250), Num(700), Num(1500), Num(3000)>>
  ELSE <<Num(-1000), Num(-100), Num(0), Num(150), Num(300), Num(700),
         Num(1500), Num(3000)>>

\* C6: every control point of both curves sits at toScalar of its Hounsfield
\* landmark; with slope 1, intercept -1024 and preset soft the first and last
\* color points are at 864 and 1264.
C6_PositionsRescaled ==
  Built =>
    /\ Len(ctf) = Len(ColorHU)
    /\ Len(otf) = Len(OpacityHU)
    /\ \A i \in 1..Len(ctf) : ctf[i].x = ToScalar(ColorHU[i], slope, intercept)
    /\ \A i \in 1..Len(otf) : otf[i].x = ToScalar(OpacityHU[i], slope, intercept)
    /\ (slope = Num(1) /\ intercept = Num(-1024)
          /\ call[1] = "BuildCTTransferFunctions" /\ preset = sSoft)
         => (ctf[1].x = Num(864) /\ ctf[4].x = Num(1264))

C6_Witness ==
  /\ pc = "done"
  /\ hasSlope /\ slope = Num(1)
  /\ hasIntercept /\ intercept = Num(-1024)
  /\ call[1] = "BuildCTTransferFunctions" /\ preset = sSoft
  /\ ctf[1].x = Num(864)

\* C7: for every WindowLevel, width <= 0 included, the windowed builder uses
\* max(1, width) and its four landmarks are low = center - width/2,
\* mid1 = low + width/4, mid2 = low + 3 width/4, high = center + width/2,
\* with low < mid1 < mid2 < high.
C7_WindowBoundsOrdered ==
  (ncalls > 0 /\ call[1] = "BuildCTTransferFunctions") =>
    LET w     == call[2]
        width == RMax(Num(1), w.ww)
        hu    == HUOf(ctf)
        low   == RSub(w.wl, RMul(width, Rat(1, 2)))
    IN  /\ Len(hu) = 4
        /\ hu[1] = low
        /\ hu[2] = RAdd(low, RMul(width, Rat(1, 4)))
        /\ hu[3] = RAdd(low, RMul(width, Rat(3, 4)))
        /\ hu[4] = RAdd(w.wl, RMul(width, Rat(1, 2)))
        /\ RLt(hu[1], hu[2]) /\ RLt(hu[2], hu[3]) /\ RLt(hu[3], hu[4])

C7_Witness ==
  /\ ncalls > 0
  /\ call[1] = "BuildCTTransferFunctions"
  /\ RLe(call[2].ww, Num(0))
  /\ Len(ctf) = 4

\* C8: after any sequence of builder calls on the same curve objects, each
\* curve holds exactly the points the last call puts on an empty curve.
C8_RebuiltFromScratch ==
  ncalls > 0 =>
    /\ ctf = RunCall(call, <<>>, <<>>).ctf
    /\ otf = RunCall(call, <<>>, <<>>).otf
    /\ Len(ctf) = Len(ColorHU)
    /\ Len(otf) = Len(OpacityHU)

C8_Witness ==
  /\ ncalls >= 2
  /\ call[1] = "BuildBoneOnlyTransferFunctions"
  /\ Len(ctf) = 4
  /\ Len(otf) = 5

\* C9: a run whose slope or intercept tag is absent, or whose slope is 0, has
\* a log that differs from the log of a run whose metadata carried the values
\* used.
C9_FallbackDiagnosed ==
  (pc = "done" /\ (~hasSlope \/ ~hasIntercept \/ slope = Num(0))) =>
    log # InfoLog(variant, preset, boneOnly, cinematic, EffSlope(slope), intercept)
          \o BuildLog(variant, preset, boneOnly, cinematic, EffSlope(slope), intercept)

\* C10: the Bone-Only opacity is 0 at the floor landmark (150 or 180 HU) and
\* strictly increasing over floor < 250 < 700 < 1500 < 3000; the color curve
\* has no point below 250 HU.
C10_BoneOnlyOpacity ==
  (Built /\ call[1] = "BuildBoneOnlyTransferFunctions") =>
    LET hu == HUOf(otf)
    IN  /\ Len(otf) = 5
        /\ hu[1] \in {Num(150), Num(180)}
        /\ otf[1].y = Num(0)
        /\ <<hu[2], hu[3], hu[4], hu[5]>> = <<Num(250), Num(700), Num(1500), Num(3000)>>
        /\ \A i \in 1..4 : RLt(hu[i], hu[i + 1]) /\ RLt(otf[i].y, otf[i + 1].y)
        /\ \A i \in 1..Len(ctf) : RLe(Num(250), HUOf(ctf)[i])

C10_Witness ==
  /\ pc = "done"
  /\ call[1] = "BuildBoneOnlyTransferFunctions"
  /\ variant = 1
  /\ ReqPreset = sBone /\ ReqFlag
  /\ otf[1].y = Num(0)

\* C11: the Cinematic opacity is 0 at air (-1000 HU) and fat (-100 HU), at
\* least 0.90 at teeth (1500 HU), and strictly increasing over water, softHi,
\* trabecular, cortical, teeth, max (0, 150, 300, 700, 1500, 3000 HU).
C11_CinematicOpacity ==
  (ncalls > 0 /\ call[1] = "BuildCinematicSkullTFs") =>
    LET hu == HUOf(otf)
    IN  /\ Len(otf) = 8
        /\ hu = <<Num(-1000), Num(-100), Num(0), Num(150), Num(300), Num(700),
                  Num(1500), Num(3000)>>
        /\ otf[1].y = Num(0)
        /\ otf[2].y = Num(0)
        /\ RLe(Dec(90), otf[7].y)
        /\ \A i \in 3..7 : RLt(otf[i].y, otf[i + 1].y)

C11_Witness ==
  /\ ncalls > 0
  /\ call[1] = "BuildCinematicSkullTFs"
  /\ CallSlope = Num(0)
  /\ otf[2].y = Num(0)
  /\ otf[7].y = Dec(95)

\* C12: for every voxel spacing the opacity unit distance handed to the
\* volume property is max(0.5, 0.5 * sqrt(sx^2 + sy^2 + sz^2)): never below
\* 0.5, and exactly 0.5 for the spacing (0,0,0).
C12_UnitDistanceFloor ==
  pc = "done" =>
    /\ unitDistance # <<>>
    /\ RLe(Rat(1, 2), unitDistance)
    /\ spacing = <<Num(0), Num(0), Num(0)>> => unitDistance = Rat(1, 2)
    /\ LET sum  == RAdd(RAdd(RMul(spacing[1], spacing[1]),
                             RMul(spacing[2], spacing[2])),
                        RMul(spacing[3], spacing[3]))
           step == RMul(Num(2), unitDistance)
           next == RAdd(step, Rat(1, 1000))
       IN  IF RLe(sum, Num(1))
           THEN unitDistance = Rat(1, 2)
           ELSE RLe(RMul(step, step), sum) /\ RLt(sum, RMul(next, next))

====
